---- MODULE Spec2Model ----
(***************************************************************************)
(* Playback engine of the podcast player.                                  *)
(*                                                                         *)
(* Spec    : the web player, class PodcastApp, driving one HTMLAudioElement *)
(*           (this.audio) and persisting positions in localStorage.        *)
(* SpecRN  : the React-Native player screen (AudioPlayer, ProgressBar)      *)
(*           driving the AudioService singleton.                           *)
(* SpecRate, SpecTicks, SpecLive : the web player with its speed control,  *)
(*           followed tick by tick, and under the event loop's fairness.   *)
(* SpecRestoration : the cold-start prompt, PlaybackRestoration.           *)
(* SpecViews : AudioPlayer and TranscriptionViewer subscribing to events.  *)
(* SpecAd  : the ExitAdvertisement countdown.                              *)
(*                                                                         *)
(* Times are counted in ticks, TicksPerSecond ticks to the second, so that *)
(* a position with a fractional part of a second exists and parseInt has   *)
(* something to cut off.                                                   *)
(***************************************************************************)
EXTENDS Integers, Sequences, FiniteSets, TLC

\* ------------------------------------------------------------------ bounds
NumEpisodes == 2
MaxPending == 2
MaxPlays == 1
MaxCommands == 4
MaxTicks == 4
MaxShows == 3
MaxTimers == 1
MaxUpdates == 2
MaxElapsed == 4
MaxPresses == 2
MaxTaps == 2
MaxClock == 8
MaxDuration == 64
TicksPerSecond == 2

\* ------------------------------------------------------- program constants
SkipForwardSeconds == 30
SkipBackwardSeconds == 15
DefaultRate == 100

Secs(n) == n * TicksPerSecond

EpisodeIds == 1..NumEpisodes
NoEpisode == 0
\* ids a caller can pass: the ids of this.episodes and one id not in the list
EpisodeArgs == 0..NumEpisodes

\* duration of the audio resource behind an episode, as the backend reports
\* it once metadata is read: 30s for odd ids, 10.5s for even ids
MediaDuration(e) == IF e % 2 = 1 THEN Secs(30) ELSE Secs(10) + 1
\* the backend's progress between two time-progress notifications
AdvanceStep == Secs(15)
\* the period of the element's timeupdate events during playback: one tick
TimeUpdatePeriod == 1
\* the interval of the checkpoint throttle: "every few seconds"
ThrottleInterval == Secs(2)

Absent == -1
\* no seek waiting for metadata
NoSeek == -1000000
\* lastPlaybackState: null
NoPointer == [episodeId |-> 0, position |-> 0]
\* useState<number>(5), setTimeRemaining(5): the exit advertisement's countdown
InitialTimeRemaining == 5
\* the seconds after which the advertisement may be skipped
SkipAfterSeconds == 5
NaN == -1

Min(a, b) == IF a < b THEN a ELSE b
Max(a, b) == IF a > b THEN a ELSE b

\* ---------------------------------------------------------------- web state
VARIABLES
    currentEpisode,   \* this.currentEpisode: 0 (null) or an episode id
    isPlaying,        \* this.isPlaying
    currentTime,      \* this.currentTime, ticks
    duration,         \* this.duration, ticks (0 until loadedmetadata)
    playbackRate,     \* this.playbackRate, hundredths, or NaN
    totalPlays,       \* this.analytics.totalPlays, saved by saveData
    storage,          \* localStorage episode_progress_<id>: ticks or Absent
    audio,            \* this.audio, the HTMLAudioElement
    microtasks,       \* settled play() promises whose callbacks are due
    last,             \* the handler that ran last, with what it was given
    pauseDebt,        \* the pause whose position is not yet checkpointed
    sinceWrite,       \* playback time since the last checkpoint write, ticks
    commands,         \* user commands issued so far
    svc,              \* AudioService state (React-Native player)
    ui,               \* what the React-Native screen asked for last
    views,            \* what the mounted components display of the engine
    rest,             \* PlaybackRestoration: saved pointer, prompt, progress
    ad,               \* ExitAdvertisement: props, countdown, timer
    registry,         \* AudioService listeners: handlers registered per event
    bookmarkSeek,     \* playFromBookmark: the timeout waiting to seek
    lifecycle,        \* AppLifecycleSettings: toggles, persisted settings, updates
    adPlayer,         \* AdPlayer: elapsed time, flags, timer, callbacks
    gesture,          \* GestureHandler: taps, timers, callbacks
    snippet           \* SnippetCreator: the selected range

webVars == <<currentEpisode, isPlaying, currentTime, duration, playbackRate,
             totalPlays, storage, audio, microtasks, last, pauseDebt, sinceWrite,
             commands>>
extraVars == <<registry, bookmarkSeek, lifecycle, adPlayer, gesture, snippet>>
rnVars == <<svc, ui, views, rest, ad, extraVars>>
vars == <<currentEpisode, isPlaying, currentTime, duration, playbackRate,
          totalPlays, storage, audio, microtasks, last, pauseDebt, sinceWrite,
          commands, svc, ui,
          views, rest, ad, registry, bookmarkSeek, lifecycle, adPlayer, gesture, snippet>>
\* the two players and what hangs on them; the screens below stand alone
playerVars == <<webVars, svc, ui, views, rest, ad, registry, bookmarkSeek>>

\* --------------------------------------------------- HTMLAudioElement model
\* A media-element task: an event to fire, or play() promises to settle.
Task(type, cbs) == [type |-> type, cbs |-> cbs]

InQueue(q, type) == \E i \in 1..Len(q) : q[i].type = type

\* queue an event; an event already waiting is not queued twice
Enqueue(q, type) == IF InQueue(q, type) THEN q ELSE Append(q, Task(type, <<>>))

EnqueueSettle(q, type, cbs) == IF cbs = <<>> THEN q ELSE Append(q, Task(type, cbs))

\* outcome: "resolved" (playback started), "refused" (the element would not
\* play) or "aborted" (a pause or a new load came first)
Settled(cbs, outcome) ==
    [i \in 1..Len(cbs) |-> [origin |-> cbs[i].origin, ep |-> cbs[i].ep, outcome |-> outcome]]

RECURSIVE SettleTasks(_)
\* the promises of the queued resolve/reject tasks, settled in queue order
SettleTasks(q) ==
    IF q = <<>> THEN <<>>
    ELSE LET t == Head(q) IN
         (IF t.type = "resolve" THEN Settled(t.cbs, "resolved")
          ELSE IF t.type = "reject" THEN Settled(t.cbs, "aborted")
          ELSE <<>>) \o SettleTasks(Tail(q))

RECURSIVE QueuedCallbacks(_)
QueuedCallbacks(q) == IF q = <<>> THEN 0 ELSE Len(Head(q).cbs) + QueuedCallbacks(Tail(q))

AudioReady(a) == a.duration > 0

NewAudio == [src |-> NoEpisode, currentTime |-> 0, duration |-> 0, paused |-> TRUE,
             error |-> FALSE, playbackRate |-> DefaultRate, pendingPlay |-> <<>>,
             tasks |-> <<>>]

\* audio.src = url : the media element load algorithm.  Queued promise tasks
\* are settled at once, every queued task is dropped, pending play promises
\* are rejected, position and rate are reset; a position that changed is
\* announced by a timeupdate.
AudioSetSrc(a, ep) ==
    [a |-> [src |-> ep, currentTime |-> 0, duration |-> 0, paused |-> TRUE,
            error |-> FALSE, playbackRate |-> DefaultRate, pendingPlay |-> <<>>,
            tasks |-> IF AudioReady(a) /\ a.currentTime # 0
                      THEN <<Task("timeupdate", <<>>)>> ELSE <<>>],
     jobs |-> SettleTasks(a.tasks) \o Settled(a.pendingPlay, "aborted")]

\* audio.currentTime = t : before metadata the value is kept as the start
\* position; afterwards it is a seek, clamped to the resource.
AudioSetCurrentTime(a, t) ==
    IF AudioReady(a)
    THEN [a EXCEPT !.currentTime = Max(0, Min(t, a.duration)),
                   !.tasks = Enqueue(a.tasks, "timeupdate")]
    ELSE [a EXCEPT !.currentTime = Max(0, t)]

\* audio.play() with callbacks cb attached to the returned promise
AudioPlay(a, cb, allowed) ==
    IF ~allowed \/ a.error
    THEN [a |-> a, jobs |-> Settled(<<cb>>, "refused")]
    ELSE LET atEnd == AudioReady(a) /\ a.currentTime = a.duration
             b == [a EXCEPT !.paused = FALSE,
                            !.currentTime = IF atEnd THEN 0 ELSE @,
                            !.tasks = IF atEnd THEN Enqueue(@, "timeupdate") ELSE @]
         IN IF AudioReady(a)
            THEN [a |-> [b EXCEPT !.pendingPlay = <<>>,
                                  !.tasks = EnqueueSettle(@, "resolve", Append(a.pendingPlay, cb))],
                  jobs |-> <<>>]
            ELSE [a |-> [b EXCEPT !.pendingPlay = Append(@, cb)], jobs |-> <<>>]

\* audio.pause()
AudioPause(a) ==
    IF a.paused THEN a
    ELSE [a EXCEPT !.paused = TRUE, !.pendingPlay = <<>>,
                   !.tasks = EnqueueSettle(Enqueue(@, "timeupdate"), "reject", a.pendingPlay)]

Outstanding == Len(audio.pendingPlay) + QueuedCallbacks(audio.tasks) + Len(microtasks)

\* ------------------------------------------------------------- persistence
\* parseInt(saved): the whole seconds of the saved decimal string
ParseInt(t) == (t \div TicksPerSecond) * TicksPerSecond

getEpisodeProgress(st, ep) == IF st[ep] = Absent THEN 0 ELSE ParseInt(st[ep])

\* saveProgress(): whether it calls localStorage.setItem
Writes(ep, t) == ep # NoEpisode /\ t > 0

saveProgress(st, ep, t) == IF Writes(ep, t) THEN [st EXCEPT ![ep] = t] ELSE st

\* ------------------------------------------------------------------ history
\* op: the handler; arg: its argument; notice: what showNotification showed
Did(op, arg, notice) == [op |-> op, arg |-> arg, notice |-> notice]

NoDebt == [ep |-> NoEpisode, pos |-> 0]

CheckpointOf(st, ep) == IF st[ep] = Absent THEN 0 ELSE st[ep]

\* a pause is owed a checkpoint until its position is the saved one
Owed(st, d) == IF d.ep # NoEpisode /\ CheckpointOf(st, d.ep) = d.pos THEN NoDebt ELSE d

\* ------------------------------------------- AudioService event registry
\* the events of the engine
EventNames == {"playbackStateChanged", "progressUpdated", "episodeLoaded", "seeked",
               "playbackRateChanged", "volumeChanged", "error"}
\* the components that register handlers
Owners == {"player", "viewer"}
\* the events AudioPlayer subscribes handleStateChange to
PlayerEvents == {"playbackStateChanged", "progressUpdated", "episodeLoaded", "seeked",
                 "playbackRateChanged", "volumeChanged"}
\* how many handlers each component has registered for each event
NoListeners == [k \in Owners \X EventNames |-> 0]

\* addEventListener(event, handler) with the handler of a fresh effect run
addEventListener(reg, owner, events) ==
    [k \in DOMAIN reg |-> IF k[1] = owner /\ k[2] \in events THEN reg[k] + 1 ELSE reg[k]]

\* removeEventListener(event, handler) with the handler the same run added
removeEventListener(reg, owner, events) ==
    [k \in DOMAIN reg |-> IF k[1] = owner /\ k[2] \in events THEN Max(reg[k] - 1, 0)
                          ELSE reg[k]]

\* AudioPlayer listener effect and its cleanup
playerSubscribe(reg) == addEventListener(reg, "player", PlayerEvents)

playerUnsubscribeLeaky(reg) == removeEventListener(reg, "player", PlayerEvents \ {"seeked"})

playerUnsubscribe(reg) == removeEventListener(reg, "player", PlayerEvents)

\* TranscriptionViewer progressUpdated effect and its cleanup
viewerSubscribe(reg) == addEventListener(reg, "viewer", {"progressUpdated"})

viewerUnsubscribe(reg) == removeEventListener(reg, "viewer", {"progressUpdated"})

\* ------------------------------------------------- lifecycle settings data
\* the three switches of the settings screen
SettingKeys == {"enableBackgroundPlayback", "savePlaybackPosition", "showExitAd"}
\* null: no settings object yet
NoSettings == [none |-> TRUE]
\* what the store holds before the user changed anything
StoredSettings == [k \in SettingKeys |-> k # "enableBackgroundPlayback"]

\* ------------------------------------------------------------ AdPlayer data
\* adContent.duration is optional
NoDuration == 0
\* the advertisements shown: skippable before the end, only at the end,
\* and without a duration
AdContents == [skipAfter : {1, 3}, duration : {NoDuration, 2}]
\* types/advertisement: the skip delay has passed
canSkipAd(adContent, elapsedTime) == elapsedTime >= adContent.skipAfter
\* types/advertisement: the advertisement has a duration and has run it
isAdCompleted(adContent, elapsedTime) ==
    adContent.duration # NoDuration /\ elapsedTime >= adContent.duration

\* ------------------------------------------------------ GestureHandler data
\* GESTURE.doubleTapDelay (constants/design), in clock ticks
doubleTapDelay == 2
\* Date.now() when the handler is rendered
Epoch == doubleTapDelay
\* the callbacks a parent passes: AudioPlayer's compact view (onPress), its
\* artwork (onDoubleTap), and a parent passing both
GestureProps == {[onPress |-> TRUE, onDoubleTap |-> FALSE],
                 [onPress |-> FALSE, onDoubleTap |-> TRUE],
                 [onPress |-> TRUE, onDoubleTap |-> TRUE]}
NoProps == [onPress |-> FALSE, onDoubleTap |-> FALSE]

\* ------------------------------------------------------ SnippetCreator data
\* types/snippet MAX_SNIPPET_DURATION, seconds
MAX_SNIPPET_DURATION == 60
\* the length handleStartChange gives a range whose end it has to move
SnippetLength == 30
\* episodes of one second, shorter than a snippet may be, and longer
EpisodeDurations == {1, SnippetLength, MaxDuration}
\* the values a time control can hand over, out of range ones included
TimeValues == -1 .. MaxDuration + 1
\* the ranges calculateSnippetBoundaries may open the creator with: inside
\* the episode, not empty, no longer than a snippet may be
InitialRanges(episodeDuration) ==
    {r \in [start : 0 .. episodeDuration, end : 0 .. episodeDuration] :
        r.start < r.end /\ r.end - r.start <= MAX_SNIPPET_DURATION}

\* ------------------------------------------------------------ web: Init
InitWeb ==
    /\ currentEpisode = NoEpisode
    /\ isPlaying = FALSE
    /\ currentTime = 0
    /\ duration = 0
    /\ playbackRate = DefaultRate
    /\ totalPlays = 0
    /\ storage = [e \in EpisodeIds |-> Absent]
    /\ audio = NewAudio
    /\ microtasks = <<>>
    /\ last = Did("init", NoEpisode, "none")
    /\ pauseDebt = NoDebt
    /\ sinceWrite = ThrottleInterval
    /\ commands = 0

InitRN ==
    /\ svc = [currentEpisode |-> NoEpisode, phase |-> "Idle", position |-> 0, duration |-> 0,
             queued |-> NoSeek]
    /\ ui = [op |-> "init", value |-> 0]
    /\ views = [player |-> [mounted |-> TRUE, position |-> 0],
                viewer |-> [visible |-> FALSE, currentTime |-> 0]]

\* PlaybackRestoration before the saved state has been read
InitRestoration ==
    rest = [pointer |-> NoPointer, episode |-> NoEpisode, isVisible |-> FALSE,
            isLoading |-> FALSE, pc |-> "cold", lookup |-> "none", calls |-> <<>>,
            shown |-> 0, answered |-> "none"]

\* ExitAdvertisement mounted hidden: useState(5), useState(false), no timer
InitAd ==
    ad = [isVisible |-> FALSE, adConfig |-> FALSE, timeRemaining |-> InitialTimeRemaining,
          canSkip |-> FALSE, timer |-> FALSE, elapsed |-> 0, shows |-> 0, op |-> "mount"]

\* AudioPlayer is mounted: its effect has registered handleStateChange
InitRegistry == registry = playerSubscribe(NoListeners)

\* no playFromBookmark timeout is waiting
InitBookmark == bookmarkSeek = <<>>

\* AppLifecycleSettings mounted: useState(null), the hook has no settings yet
InitLifecycle ==
    lifecycle = [settings |-> NoSettings, localSettings |-> NoSettings,
                 updates |-> <<>>]

\* no AdPlayer is on screen
InitAdPlayer ==
    adPlayer = [mounted |-> FALSE, adContent |-> [skipAfter |-> 0, duration |-> NoDuration],
                elapsedTime |-> 0, isPlaying |-> FALSE, canSkip |-> FALSE,
                isCompleted |-> FALSE, timer |-> FALSE,
                onAdComplete |-> 0, onAdSkip |-> 0, shows |-> 0]

\* no GestureHandler rendered yet; lastTap = useRef(0), and the clock
\* (Date.now()) is far from 0
InitGesture ==
    gesture = [props |-> NoProps, now |-> Epoch, lastTap |-> 0, down |-> FALSE,
               timers |-> <<>>, onPress |-> 0, onDoubleTap |-> 0, grants |-> <<>>]

\* SnippetCreator is not open
InitSnippet ==
    snippet = [open |-> FALSE, episodeDuration |-> 0, startTimestamp |-> 0,
               endTimestamp |-> 0, op |-> "none"]

InitExtra ==
    /\ InitBookmark
    /\ InitLifecycle
    /\ InitAdPlayer
    /\ InitGesture
    /\ InitSnippet

Init == InitWeb /\ InitRN /\ InitRestoration /\ InitAd /\ InitRegistry /\ InitExtra

\* ------------------------------------------------------ web: user commands
\* playEpisode(episodeId)
PlayEpisodeCall(episodeId, allowed) ==
    /\ microtasks = <<>>
    /\ commands < MaxCommands
    /\ commands' = commands + 1
    /\ Outstanding < MaxPending
    /\ IF episodeId \notin EpisodeIds
       THEN /\ last' = Did("playEpisode", NoEpisode, "none")
            /\ UNCHANGED <<currentEpisode, isPlaying, currentTime, duration, playbackRate,
                           totalPlays, storage, audio, microtasks, pauseDebt, sinceWrite>>
       ELSE LET loaded == AudioSetSrc(audio, episodeId)
                progress == getEpisodeProgress(storage, episodeId)
                seeked == IF progress > 0 THEN AudioSetCurrentTime(loaded.a, progress)
                          ELSE loaded.a
                played == AudioPlay(seeked, [origin |-> "playEpisode", ep |-> episodeId], allowed)
            IN /\ currentEpisode' = episodeId
               /\ audio' = played.a
               /\ microtasks' = loaded.jobs \o played.jobs
               /\ last' = Did("playEpisode", NoEpisode, "none")
               /\ sinceWrite' = ThrottleInterval
               /\ UNCHANGED <<isPlaying, currentTime, duration, playbackRate, totalPlays,
                              storage, pauseDebt>>

playEpisode(episodeId, allowed) ==
    /\ PlayEpisodeCall(episodeId, allowed)
    /\ UNCHANGED rnVars

\* selectEpisode(episodeId)
selectEpisode(episodeId) ==
    /\ microtasks = <<>>
    /\ commands < MaxCommands
    /\ commands' = commands + 1
    /\ currentEpisode' = IF episodeId \in EpisodeIds THEN episodeId ELSE currentEpisode
    /\ last' = Did("selectEpisode", NoEpisode, "none")
    /\ UNCHANGED <<isPlaying, currentTime, duration, playbackRate, totalPlays, storage,
                   audio, microtasks, pauseDebt, sinceWrite>>
    /\ UNCHANGED rnVars

\* togglePlayPause(), pause branch
togglePause ==
    /\ microtasks = <<>>
    /\ commands < MaxCommands
    /\ commands' = commands + 1
    /\ currentEpisode # NoEpisode
    /\ isPlaying
    /\ audio' = AudioPause(audio)
    /\ isPlaying' = FALSE
    /\ pauseDebt' = Owed(storage, [ep |-> currentEpisode, pos |-> audio.currentTime])
    /\ sinceWrite' = ThrottleInterval
    /\ last' = Did("pause", NoEpisode, "none")
    /\ UNCHANGED <<currentEpisode, currentTime, duration, playbackRate, totalPlays,
                   storage, microtasks>>
    /\ UNCHANGED rnVars

\* togglePlayPause(), play branch
togglePlay(allowed) ==
    /\ microtasks = <<>>
    /\ commands < MaxCommands
    /\ commands' = commands + 1
    /\ Outstanding < MaxPending
    /\ currentEpisode # NoEpisode
    /\ ~isPlaying
    /\ LET played == AudioPlay(audio, [origin |-> "togglePlayPause", ep |-> currentEpisode], allowed)
       IN /\ audio' = played.a
          /\ microtasks' = played.jobs
    /\ pauseDebt' = IF allowed /\ ~audio.error THEN NoDebt ELSE pauseDebt
    /\ UNCHANGED sinceWrite
    /\ last' = Did("play", NoEpisode, "none")
    /\ UNCHANGED <<currentEpisode, isPlaying, currentTime, duration, playbackRate,
                   totalPlays, storage>>
    /\ UNCHANGED rnVars

\* togglePlayPause() with no current episode
toggleIdle ==
    /\ microtasks = <<>>
    /\ commands < MaxCommands
    /\ commands' = commands + 1
    /\ currentEpisode = NoEpisode
    /\ last' = Did("play", NoEpisode, "none")
    /\ UNCHANGED <<currentEpisode, isPlaying, currentTime, duration, playbackRate,
                   totalPlays, storage, audio, microtasks, pauseDebt, sinceWrite>>
    /\ UNCHANGED rnVars

\* skipForward()
skipForward ==
    /\ microtasks = <<>>
    /\ commands < MaxCommands
    /\ commands' = commands + 1
    /\ audio' = IF audio.currentTime # 0
                THEN AudioSetCurrentTime(audio,
                         Min(audio.currentTime + Secs(SkipForwardSeconds), duration))
                ELSE audio
    /\ pauseDebt' = IF audio' # audio THEN NoDebt ELSE pauseDebt
    /\ sinceWrite' = IF audio' # audio THEN ThrottleInterval ELSE sinceWrite
    /\ last' = Did("skipForward", NoEpisode, "none")
    /\ UNCHANGED <<currentEpisode, isPlaying, currentTime, duration, playbackRate,
                   totalPlays, storage, microtasks>>
    /\ UNCHANGED rnVars

\* skipBackward()
skipBackward ==
    /\ microtasks = <<>>
    /\ commands < MaxCommands
    /\ commands' = commands + 1
    /\ audio' = IF audio.currentTime # 0
                THEN AudioSetCurrentTime(audio,
                         Max(audio.currentTime - Secs(SkipBackwardSeconds), 0))
                ELSE audio
    /\ pauseDebt' = IF audio' # audio THEN NoDebt ELSE pauseDebt
    /\ sinceWrite' = IF audio' # audio THEN ThrottleInterval ELSE sinceWrite
    /\ last' = Did("skipBackward", NoEpisode, "none")
    /\ UNCHANGED <<currentEpisode, isPlaying, currentTime, duration, playbackRate,
                   totalPlays, storage, microtasks>>
    /\ UNCHANGED rnVars

\* the values of the settings screen's speed <select>, in hundredths
AllowedRates == {50, 75, 100, 125, 150, 200}
\* what a caller can hand to setPlaybackRate
RateInputs == {"0.5", "0.75", "1", "1.25", "1.5", "2", "3", "abc"}

\* parseFloat(rate), in hundredths
parseFloat(rate) ==
    CASE rate = "0.5" -> 50
      [] rate = "0.75" -> 75
      [] rate = "1" -> 100
      [] rate = "1.25" -> 125
      [] rate = "1.5" -> 150
      [] rate = "2" -> 200
      [] rate = "3" -> 300
      [] OTHER -> NaN

\* setPlaybackRate(rate): assigning a non-finite rate to the element throws,
\* after this.playbackRate has been set and before the notification
setPlaybackRate(rate) ==
    /\ microtasks = <<>>
    /\ commands < MaxCommands
    /\ commands' = commands + 1
    /\ playbackRate' = parseFloat(rate)
    /\ audio' = IF parseFloat(rate) = NaN THEN audio
                ELSE [audio EXCEPT !.playbackRate = parseFloat(rate)]
    /\ last' = Did("setPlaybackRate", parseFloat(rate),
                   IF parseFloat(rate) = NaN THEN "none" ELSE "info")
    /\ UNCHANGED <<currentEpisode, isPlaying, currentTime, duration, totalPlays,
                   storage, microtasks, pauseDebt, sinceWrite>>
    /\ UNCHANGED rnVars

\* ------------------------------------------------------- web: the backend
\* the resource's metadata arrives: duration known, start position applied,
\* a play() that was waiting starts
BackendMetadata ==
    /\ microtasks = <<>>
    /\ audio.src # NoEpisode /\ ~AudioReady(audio) /\ ~audio.error
    /\ LET d == MediaDuration(audio.src)
           q1 == Enqueue(audio.tasks, "loadedmetadata")
           q2 == IF audio.currentTime > 0 THEN Enqueue(q1, "timeupdate") ELSE q1
           q3 == IF audio.paused THEN q2 ELSE EnqueueSettle(q2, "resolve", audio.pendingPlay)
       IN audio' = [audio EXCEPT !.duration = d,
                                 !.currentTime = Min(@, d),
                                 !.pendingPlay = IF audio.paused THEN @ ELSE <<>>,
                                 !.tasks = q3]
    /\ last' = Did("backend", NoEpisode, "none")
    /\ UNCHANGED <<currentEpisode, isPlaying, currentTime, duration, playbackRate,
                   totalPlays, storage, microtasks, pauseDebt, sinceWrite>>
    /\ UNCHANGED <<commands, svc, ui, views, rest, ad, extraVars>>

\* the resource cannot be loaded
BackendLoadFails ==
    /\ microtasks = <<>>
    /\ audio.src # NoEpisode /\ ~AudioReady(audio) /\ ~audio.error
    /\ audio' = [audio EXCEPT !.error = TRUE, !.tasks = Enqueue(@, "error")]
    /\ last' = Did("backend", NoEpisode, "none")
    /\ UNCHANGED <<currentEpisode, isPlaying, currentTime, duration, playbackRate,
                   totalPlays, storage, microtasks, pauseDebt, sinceWrite>>
    /\ UNCHANGED <<commands, svc, ui, views, rest, ad, extraVars>>

\* playback progresses; reaching the end pauses the element
Progressed(a, step) ==
    LET t == Min(a.currentTime + step, a.duration)
        q == Enqueue(a.tasks, "timeupdate")
    IN [a EXCEPT !.currentTime = t,
                 !.paused = (t = a.duration),
                 !.tasks = IF t = a.duration THEN Enqueue(q, "ended") ELSE q]

\* a stretch of playback between two looks at the player
BackendAdvance ==
    /\ microtasks = <<>>
    /\ AudioReady(audio) /\ ~audio.paused /\ audio.currentTime < audio.duration
    /\ audio' = Progressed(audio, AdvanceStep)
    /\ pauseDebt' = NoDebt
    /\ sinceWrite' = Min(sinceWrite + AdvanceStep, ThrottleInterval)
    /\ last' = Did("backend", NoEpisode, "none")
    /\ UNCHANGED <<currentEpisode, isPlaying, currentTime, duration, playbackRate,
                   totalPlays, storage, microtasks>>
    /\ UNCHANGED <<commands, svc, ui, views, rest, ad, extraVars>>

\* playback up to the element's next timeupdate, followed over the first
\* MaxTicks ticks of an episode
BackendTick ==
    /\ microtasks = <<>>
    /\ AudioReady(audio) /\ ~audio.paused /\ audio.currentTime < audio.duration
    /\ audio.currentTime < MaxTicks
    /\ audio' = Progressed(audio, TimeUpdatePeriod)
    /\ pauseDebt' = NoDebt
    /\ sinceWrite' = Min(sinceWrite + TimeUpdatePeriod, ThrottleInterval)
    /\ last' = Did("backend", NoEpisode, "none")
    /\ UNCHANGED <<currentEpisode, isPlaying, currentTime, duration, playbackRate,
                   totalPlays, storage, microtasks>>
    /\ UNCHANGED <<commands, svc, ui, views, rest, ad, extraVars>>

\* ------------------------------------------- web: the audio event listeners
Next1(type) == /\ microtasks = <<>>
               /\ audio.tasks # <<>>
               /\ Head(audio.tasks).type = type

Popped == [audio EXCEPT !.tasks = Tail(@)]

\* 'loadedmetadata' listener
OnLoadedMetadata ==
    /\ Next1("loadedmetadata")
    /\ duration' = audio.duration
    /\ audio' = Popped
    /\ last' = Did("loadedmetadata", NoEpisode, "none")
    /\ UNCHANGED <<currentEpisode, isPlaying, currentTime, playbackRate, totalPlays,
                   storage, microtasks, pauseDebt, sinceWrite>>
    /\ UNCHANGED <<commands, svc, ui, views, rest, ad, extraVars>>

\* 'timeupdate' listener
OnTimeUpdate ==
    /\ Next1("timeupdate")
    /\ currentTime' = audio.currentTime
    /\ storage' = saveProgress(storage, currentEpisode, audio.currentTime)
    /\ pauseDebt' = Owed(storage', pauseDebt)
    /\ sinceWrite' = IF Writes(currentEpisode, audio.currentTime) THEN 0 ELSE sinceWrite
    /\ audio' = Popped
    /\ last' = Did("timeupdate", NoEpisode, "none")
    /\ UNCHANGED <<currentEpisode, isPlaying, duration, playbackRate, totalPlays, microtasks>>
    /\ UNCHANGED <<commands, svc, ui, views, rest, ad, extraVars>>

\* 'ended' listener: handleEpisodeEnd()
OnEnded ==
    /\ Next1("ended")
    /\ totalPlays < MaxPlays
    /\ isPlaying' = FALSE
    /\ totalPlays' = totalPlays + 1
    /\ audio' = Popped
    /\ last' = Did("ended", NoEpisode, "info")
    /\ UNCHANGED <<currentEpisode, currentTime, duration, playbackRate, storage,
                   microtasks, pauseDebt, sinceWrite>>
    /\ UNCHANGED <<commands, svc, ui, views, rest, ad, extraVars>>

\* 'error' listener; the element rejects the play() promises still pending
OnError ==
    /\ Next1("error")
    /\ audio' = [Popped EXCEPT !.pendingPlay = <<>>]
    /\ microtasks' = Settled(audio.pendingPlay, "refused")
    /\ last' = Did("error", NoEpisode, "error")
    /\ UNCHANGED <<currentEpisode, isPlaying, currentTime, duration, playbackRate,
                   totalPlays, storage, pauseDebt, sinceWrite>>
    /\ UNCHANGED <<commands, svc, ui, views, rest, ad, extraVars>>

\* the element settles play() promises (playback started, or was aborted)
SettlePlayPromises ==
    /\ microtasks = <<>>
    /\ audio.tasks # <<>>
    /\ Head(audio.tasks).type \in {"resolve", "reject"}
    /\ microtasks' = Settled(Head(audio.tasks).cbs,
                            IF Head(audio.tasks).type = "resolve" THEN "resolved" ELSE "aborted")
    /\ audio' = Popped
    /\ last' = Did("backend", NoEpisode, "none")
    /\ UNCHANGED <<currentEpisode, isPlaying, currentTime, duration, playbackRate,
                   totalPlays, storage, pauseDebt, sinceWrite>>
    /\ UNCHANGED <<commands, svc, ui, views, rest, ad, extraVars>>

\* ------------------------------------------ web: play() promise callbacks
Job == Head(microtasks)

\* playEpisode: .then(() => { this.isPlaying = true; ... trackPlay(episode) ... })
PlayEpisodeThen ==
    /\ microtasks # <<>>
    /\ Job.origin = "playEpisode" /\ Job.outcome = "resolved"
    /\ totalPlays < MaxPlays
    /\ isPlaying' = TRUE
    /\ totalPlays' = totalPlays + 1
    /\ microtasks' = Tail(microtasks)
    /\ last' = Did("playEpisode.then", Job.ep, "info")
    /\ UNCHANGED <<currentEpisode, currentTime, duration, playbackRate, storage,
                   audio, pauseDebt, sinceWrite>>
    /\ UNCHANGED <<commands, svc, ui, views, rest, ad, extraVars>>

\* playEpisode: .catch(e => { ... showNotification(..., 'error') })
PlayEpisodeCatch ==
    /\ microtasks # <<>>
    /\ Job.origin = "playEpisode" /\ Job.outcome # "resolved"
    /\ microtasks' = Tail(microtasks)
    /\ last' = Did(IF Job.outcome = "refused" THEN "playEpisode.refused" ELSE "playEpisode.aborted",
                   NoEpisode, "error")
    /\ UNCHANGED <<currentEpisode, isPlaying, currentTime, duration, playbackRate,
                   totalPlays, storage, audio, pauseDebt, sinceWrite>>
    /\ UNCHANGED <<commands, svc, ui, views, rest, ad, extraVars>>

\* togglePlayPause: .then(() => { this.isPlaying = true; })
TogglePlayThen ==
    /\ microtasks # <<>>
    /\ Job.origin = "togglePlayPause" /\ Job.outcome = "resolved"
    /\ isPlaying' = TRUE
    /\ microtasks' = Tail(microtasks)
    /\ last' = Did("togglePlayPause.then", NoEpisode, "none")
    /\ UNCHANGED <<currentEpisode, currentTime, duration, playbackRate, totalPlays,
                   storage, audio, pauseDebt, sinceWrite>>
    /\ UNCHANGED <<commands, svc, ui, views, rest, ad, extraVars>>

\* togglePlayPause attaches no rejection handler: the rejection goes nowhere
TogglePlayRejected ==
    /\ microtasks # <<>>
    /\ Job.origin = "togglePlayPause" /\ Job.outcome # "resolved"
    /\ microtasks' = Tail(microtasks)
    /\ last' = Did(IF Job.outcome = "refused" THEN "togglePlayPause.refused"
                   ELSE "togglePlayPause.aborted", NoEpisode, "none")
    /\ UNCHANGED <<currentEpisode, isPlaying, currentTime, duration, playbackRate,
                   totalPlays, storage, audio, pauseDebt, sinceWrite>>
    /\ UNCHANGED <<commands, svc, ui, views, rest, ad, extraVars>>

Next ==
    \/ \E e \in EpisodeArgs, allowed \in BOOLEAN : playEpisode(e, allowed)
    \/ \E e \in EpisodeArgs : selectEpisode(e)
    \/ togglePause
    \/ \E allowed \in BOOLEAN : togglePlay(allowed)
    \/ toggleIdle
    \/ skipForward
    \/ skipBackward
    \/ BackendMetadata
    \/ BackendLoadFails
    \/ BackendAdvance
    \/ OnLoadedMetadata
    \/ OnTimeUpdate
    \/ OnEnded
    \/ OnError
    \/ SettlePlayPromises
    \/ PlayEpisodeThen
    \/ PlayEpisodeCatch
    \/ TogglePlayThen
    \/ TogglePlayRejected

Spec == Init /\ [][Next]_vars

\* What the browser's event loop guarantees: a queued event reaches its
\* listener and a settled promise runs its callbacks.  Nothing obliges the
\* network to answer, and the program arms no timer of its own.
EventLoop ==
    \/ OnLoadedMetadata
    \/ OnTimeUpdate
    \/ OnEnded
    \/ OnError
    \/ SettlePlayPromises
    \/ PlayEpisodeThen
    \/ PlayEpisodeCatch
    \/ TogglePlayThen
    \/ TogglePlayRejected

SpecLive == Init /\ [][Next]_vars /\ WF_vars(EventLoop)

\* the element has a source whose metadata has neither arrived nor failed
Loading == audio.src # NoEpisode /\ ~AudioReady(audio) /\ ~audio.error

\* the speed control next to episode loads, which reset the element's rate
NextRate ==
    \/ \E r \in RateInputs : setPlaybackRate(r)
    \/ \E e \in EpisodeArgs, allowed \in BOOLEAN : playEpisode(e, allowed)
    \/ BackendMetadata
    \/ OnLoadedMetadata
    \/ SettlePlayPromises
    \/ PlayEpisodeThen
    \/ PlayEpisodeCatch

SpecRate == Init /\ [][NextRate]_vars

\* playback followed from one timeupdate to the next
NextTicks ==
    \/ \E e \in EpisodeArgs, allowed \in BOOLEAN : playEpisode(e, allowed)
    \/ togglePause
    \/ \E allowed \in BOOLEAN : togglePlay(allowed)
    \/ BackendMetadata
    \/ BackendTick
    \/ OnLoadedMetadata
    \/ OnTimeUpdate
    \/ SettlePlayPromises
    \/ PlayEpisodeThen
    \/ PlayEpisodeCatch
    \/ TogglePlayThen
    \/ TogglePlayRejected

SpecTicks == Init /\ [][NextTicks]_vars

\* ------------------------------------------------- web: playFromBookmark
\* the bookmarks of this.bookmarks: an episode and a timestamp inside it
BookmarkTimestamps == {Secs(5), Secs(20)}
Bookmarks == {b \in [episodeId : EpisodeIds, timestamp : BookmarkTimestamps] :
                  b.timestamp <= MediaDuration(b.episodeId)}

\* playFromBookmark(bookmarkId): playEpisode(episode.id), then setTimeout
playFromBookmark(b, allowed) ==
    /\ Len(bookmarkSeek) < MaxTimers
    /\ PlayEpisodeCall(b.episodeId, allowed)
    /\ bookmarkSeek' = Append(bookmarkSeek, b)
    /\ UNCHANGED <<svc, ui, views, rest, ad, registry, lifecycle, adPlayer, gesture, snippet>>

\* the timeout fires: this.audio.currentTime = bookmark.timestamp
BookmarkSeekFires ==
    /\ microtasks = <<>>
    /\ bookmarkSeek # <<>>
    /\ audio' = AudioSetCurrentTime(audio, Head(bookmarkSeek).timestamp)
    /\ bookmarkSeek' = Tail(bookmarkSeek)
    /\ pauseDebt' = IF audio' # audio THEN NoDebt ELSE pauseDebt
    /\ sinceWrite' = IF audio' # audio THEN ThrottleInterval ELSE sinceWrite
    /\ last' = Did("bookmarkSeek", Head(bookmarkSeek).episodeId, "none")
    /\ UNCHANGED <<currentEpisode, isPlaying, currentTime, duration, playbackRate,
                   totalPlays, storage, microtasks, commands>>
    /\ UNCHANGED <<svc, ui, views, rest, ad, registry, lifecycle, adPlayer, gesture, snippet>>

\* a jump to a bookmark, followed up to the end of the episode
NextBookmark ==
    \/ \E b \in Bookmarks, allowed \in BOOLEAN : playFromBookmark(b, allowed)
    \/ BookmarkSeekFires
    \/ \E e \in EpisodeArgs, allowed \in BOOLEAN : playEpisode(e, allowed)
    \/ BackendMetadata
    \/ BackendAdvance
    \/ OnLoadedMetadata
    \/ OnTimeUpdate
    \/ SettlePlayPromises
    \/ PlayEpisodeThen
    \/ PlayEpisodeCatch

SpecBookmark == Init /\ [][NextBookmark]_vars

\* ------------------------------------------- React-Native player screen
\* the values a bookmark, a transcript line or a restored session can carry
SeekValues == {0 - Secs(5), 0, Secs(7), Secs(12), Secs(5000)}
\* where a finger can land, in the coordinate of the track
TouchXs == {-30, 0, 50, 100, 150, 250, 300, 330}
trackWidth == 300

\* AudioService.seekTo(position): clamp into [0, duration]; with the duration
\* unknown the call waits for the metadata
seekTo(s, position) ==
    IF s.currentEpisode = NoEpisode THEN s
    ELSE IF s.duration > 0
    THEN [s EXCEPT !.position = Max(0, Min(position, s.duration))]
    ELSE [s EXCEPT !.queued = position]

\* AudioService.loadEpisode(episode)
loadEpisode(s, e) ==
    [currentEpisode |-> e, phase |-> "Loading", position |-> 0, duration |-> 0, queued |-> NoSeek]

\* AudioService.play(): only from Ready(Paused) or Ended
play(s) == IF s.phase \in {"Paused", "Ended"} THEN [s EXCEPT !.phase = "Playing"] ELSE s

\* AudioService.pause(): only from Playing
pause(s) == IF s.phase = "Playing" THEN [s EXCEPT !.phase = "Paused"] ELSE s

handleSeekRelative(s, position) == seekTo(s, s.position + position)

\* AudioPlayer.handleSeek(position)
handleSeek(s, position) == seekTo(s, position)

\* ProgressBar.handleTrackPress: the position under the finger, to the tick
newPosition(touchX, d) == (Max(0, Min(trackWidth, touchX)) * d) \div trackWidth

\* synchronous dispatch of the events of one engine change to the listeners:
\* AudioPlayer.handleStateChange re-reads getState(), TranscriptionViewer's
\* handleProgressUpdate (registered while visible) takes progress.position
Notify(v, s, events) ==
    [player |-> IF v.player.mounted /\ events \cap PlayerEvents # {}
                THEN [v.player EXCEPT !.position = s.position] ELSE v.player,
     viewer |-> IF v.viewer.visible /\ "progressUpdated" \in events
                THEN [v.viewer EXCEPT !.currentTime = s.position] ELSE v.viewer]

\* AudioPlayer effect on the episode prop -> handleLoadEpisode
HandleLoadEpisode(e) ==
    /\ views.player.mounted
    /\ svc.currentEpisode # e
    /\ svc' = loadEpisode(svc, e)
    /\ ui' = [op |-> "load", value |-> e]
    /\ views' = Notify(views, svc', {"playbackStateChanged"})
    /\ UNCHANGED <<webVars, rest, ad, extraVars>>

\* the backend resolves the metadata of the episode being loaded
MetadataReady ==
    /\ svc.currentEpisode # NoEpisode /\ svc.duration = 0 /\ svc.phase = "Loading"
    /\ LET d == MediaDuration(svc.currentEpisode)
       IN svc' = [svc EXCEPT !.duration = d,
                             !.phase = "Paused",
                             !.queued = NoSeek,
                             !.position = IF svc.queued = NoSeek THEN @
                                          ELSE Max(0, Min(svc.queued, d))]
    /\ ui' = IF svc.queued = NoSeek THEN [op |-> "metadata", value |-> 0]
             ELSE [op |-> "seek", value |-> svc.queued]
    /\ views' = Notify(views, svc', {"episodeLoaded", "playbackStateChanged"} \cup (IF svc.queued = NoSeek THEN {} ELSE {"seeked"}))
    /\ UNCHANGED <<webVars, rest, ad, extraVars>>

\* a queued seek whose metadata never came is given up (SeekError)
SeekTimeout ==
    /\ svc.queued # NoSeek
    /\ svc' = [svc EXCEPT !.queued = NoSeek]
    /\ ui' = [op |-> "seekError", value |-> ui.value]
    /\ views' = Notify(views, svc', {"error"})
    /\ UNCHANGED <<webVars, rest, ad, extraVars>>

\* ProgressBar.handleTrackPress(event) -> onSeek -> AudioPlayer.handleSeek
HandleTrackPress(touchX) ==
    /\ views.player.mounted
    /\ svc.currentEpisode # NoEpisode
    /\ IF svc.duration <= 0
       THEN UNCHANGED svc /\ ui' = [op |-> "ignored", value |-> 0]
       ELSE /\ svc' = handleSeek(svc, newPosition(touchX, svc.duration))
            /\ ui' = [op |-> "seek", value |-> newPosition(touchX, svc.duration)]
    /\ views' = Notify(views, svc', IF svc.duration <= 0 THEN {} ELSE {"seeked"})
    /\ UNCHANGED <<webVars, rest, ad, extraVars>>

\* AudioPlayer.handleJumpToBookmark(timestamp), TranscriptionViewer.handleSeekToTime(time)
HandleJump(v) ==
    /\ views.player.mounted
    /\ svc.currentEpisode # NoEpisode
    /\ svc' = seekTo(svc, v)
    /\ ui' = [op |-> IF svc.duration > 0 THEN "seek" ELSE "queued", value |-> v]
    /\ views' = Notify(views, svc', IF svc.duration > 0 THEN {"seeked"} ELSE {})
    /\ UNCHANGED <<webVars, rest, ad, extraVars>>

\* the seek bar driven with an arbitrary value (accessibility adjust)
HandleSeek(v) ==
    /\ views.player.mounted
    /\ svc.currentEpisode # NoEpisode
    /\ svc' = handleSeek(svc, v)
    /\ ui' = [op |-> IF svc.duration > 0 THEN "seek" ELSE "queued", value |-> v]
    /\ views' = Notify(views, svc', IF svc.duration > 0 THEN {"seeked"} ELSE {})
    /\ UNCHANGED <<webVars, rest, ad, extraVars>>

\* AudioPlayer.handlePlayPause()
HandlePlayPause ==
    /\ views.player.mounted
    /\ svc.currentEpisode # NoEpisode
    /\ svc' = IF svc.phase = "Playing" THEN pause(svc) ELSE play(svc)
    /\ ui' = [op |-> "playPause", value |-> 0]
    /\ views' = Notify(views, svc', {"playbackStateChanged"})
    /\ UNCHANGED <<webVars, rest, ad, extraVars>>

\* the backend reports progress; the end of the stream ends playback
Progress ==
    /\ svc.phase = "Playing"
    /\ LET t == Min(svc.position + AdvanceStep, svc.duration)
       IN svc' = [svc EXCEPT !.position = t,
                             !.phase = IF t = svc.duration THEN "Ended" ELSE @]
    /\ ui' = [op |-> "progress", value |-> 0]
    /\ views' = Notify(views, svc', {"progressUpdated", "playbackStateChanged"})
    /\ UNCHANGED <<webVars, rest, ad, extraVars>>

NextRN ==
    \/ \E e \in EpisodeIds : HandleLoadEpisode(e)
    \/ MetadataReady
    \/ HandlePlayPause
    \/ Progress
    \/ SeekTimeout
    \/ \E x \in TouchXs : HandleTrackPress(x)
    \/ \E v \in SeekValues : HandleJump(v)
    \/ \E v \in SeekValues : HandleSeek(v)

SpecRN == Init /\ [][NextRN]_vars

\* ------------------------------------------ cold start: PlaybackRestoration
\* an id the catalog no longer holds
GoneEpisode == NumEpisodes + 1
\* positions a saved session can carry: the start, the middle, the very end
\* of the shortest episode
SavedPositions == {0, Secs(5), Secs(10) + 1}
\* what useAppLifecycle can hand over as lastPlaybackState
SavedPointers == {[episodeId |-> e, position |-> t] :
                      e \in EpisodeIds \cup {GoneEpisode}, t \in SavedPositions}
\* PodcastService.getEpisodeById: the episode, no episode, or a failure
LookupResults == {"found", "null", "throws"}

\* line 79: the modal is rendered only with all three present
PromptDisplayed == rest.isVisible /\ rest.episode # NoEpisode /\ rest.pointer # NoPointer

\* the backend gives up on the episode being loaded (LoadError, timeout included)
LoadFails ==
    /\ svc.currentEpisode # NoEpisode /\ svc.phase = "Loading"
    /\ svc' = [svc EXCEPT !.phase = "Error", !.queued = NoSeek]
    /\ ui' = [op |-> "loadError", value |-> 0]
    /\ views' = Notify(views, svc', {"error", "playbackStateChanged"})
    /\ UNCHANGED <<webVars, rest, ad, extraVars>>

\* useAppLifecycle delivers lastPlaybackState; the effect on it starts
\* loadEpisodeForRestoration when it names an episode
ColdStart(p) ==
    /\ rest.pc = "cold"
    /\ rest' = [rest EXCEPT !.pointer = p,
                            !.pc = IF p.episodeId # NoEpisode THEN "lookup" ELSE "idle"]
    /\ UNCHANGED <<webVars, svc, ui, views, ad, extraVars>>

\* loadEpisodeForRestoration after `await podcastService.getEpisodeById(...)`
LookupDone(result) ==
    /\ rest.pc = "lookup"
    /\ result = "found" => rest.pointer.episodeId \in EpisodeIds
    /\ result = "null" => rest.pointer.episodeId \notin EpisodeIds
    /\ rest' = CASE result = "found" ->
                      [rest EXCEPT !.episode = rest.pointer.episodeId, !.isVisible = TRUE,
                                   !.shown = @ + 1, !.lookup = result, !.pc = "prompt"]
                 [] result = "null" ->
                      [rest EXCEPT !.lookup = result, !.pc = "idle"]
                 [] OTHER ->
                      [rest EXCEPT !.pointer = NoPointer, !.lookup = result, !.pc = "idle"]
    /\ UNCHANGED <<webVars, svc, ui, views, ad, extraVars>>

\* handleRestore, line 57: await audioService.loadEpisode(episode)
handleRestoreLoad(s, episode) == loadEpisode(s, episode)

handleRestoreSeekThenPlay(s, position) == play(seekTo(s, position))

\* handleRestore, line 60: await audioService.seekTo(lastPlaybackState.position)
handleRestoreSeek(s, position) == seekTo(s, position)

\* Resume pressed: handleRestore up to its first await
HandleRestore ==
    /\ rest.pc = "prompt" /\ PromptDisplayed /\ ~rest.isLoading
    /\ svc' = handleRestoreLoad(svc, rest.episode)
    /\ rest' = [rest EXCEPT !.isLoading = TRUE, !.answered = "resume",
                            !.calls = <<"loadEpisode">>, !.pc = "loading"]
    /\ ui' = [op |-> "restore", value |-> rest.pointer.position]
    /\ views' = Notify(views, svc', {"playbackStateChanged"})
    /\ UNCHANGED <<webVars, ad, extraVars>>

\* handleRestore resumed after the load: the seek
RestoreLoaded ==
    /\ rest.pc = "loading" /\ svc.phase = "Paused" /\ svc.currentEpisode = rest.episode
    /\ svc' = handleRestoreSeek(svc, rest.pointer.position)
    /\ rest' = [rest EXCEPT !.calls = Append(@, "seekTo"), !.pc = "seeking"]
    /\ ui' = [op |-> "restore", value |-> rest.pointer.position]
    /\ views' = Notify(views, svc', {"seeked", "playbackStateChanged"})
    /\ UNCHANGED <<webVars, ad, extraVars>>

\* handleRestore resumed after the seek: clearLastPlaybackState(),
\* setIsVisible(false), finally setIsLoading(false)
RestoreSeeked ==
    /\ rest.pc = "seeking"
    /\ rest' = [rest EXCEPT !.pointer = NoPointer, !.isVisible = FALSE,
                            !.isLoading = FALSE, !.pc = "idle"]
    /\ UNCHANGED <<webVars, svc, ui, views, ad, extraVars>>

\* handleRestore when the load is rejected: catch logs, finally
\* setIsLoading(false)
RestoreFailed ==
    /\ rest.pc = "loading" /\ svc.phase = "Error"
    /\ rest' = [rest EXCEPT !.isLoading = FALSE, !.pc = "prompt"]
    /\ UNCHANGED <<webVars, svc, ui, views, ad, extraVars>>

\* Start Over pressed: handleDismiss
HandleDismiss ==
    /\ rest.pc = "prompt" /\ PromptDisplayed /\ ~rest.isLoading
    /\ rest' = [rest EXCEPT !.pointer = NoPointer, !.isVisible = FALSE,
                            !.answered = "startOver", !.pc = "idle"]
    /\ UNCHANGED <<webVars, svc, ui, views, ad, extraVars>>

\* the player screen lies behind the modal: its controls answer only while
\* the prompt is not on display
NextRestoration ==
    \/ \E p \in SavedPointers \cup {NoPointer} : ColdStart(p)
    \/ \E r \in LookupResults : LookupDone(r)
    \/ HandleRestore
    \/ RestoreLoaded
    \/ RestoreSeeked
    \/ RestoreFailed
    \/ HandleDismiss
    \/ MetadataReady
    \/ LoadFails
    \/ Progress
    \/ ~PromptDisplayed /\ HandlePlayPause
    \/ ~PromptDisplayed /\ \E e \in EpisodeIds : HandleLoadEpisode(e)
    \/ ~PromptDisplayed /\ \E v \in SeekValues : HandleSeek(v)

SpecRestoration == Init /\ [][NextRestoration]_vars

\* ------------------------------------- components mounting and subscribing
\* AudioPlayer mounts: useState(audioService.getState()), then its listeners;
\* its TranscriptionViewer mounts with it, hidden, useState(0)
MountPlayer ==
    /\ ~views.player.mounted
    /\ views' = [player |-> [mounted |-> TRUE, position |-> svc.position],
                 viewer |-> [visible |-> FALSE, currentTime |-> 0]]
    /\ registry' = playerSubscribe(registry)
    /\ UNCHANGED <<webVars, svc, ui, rest, ad, bookmarkSeek, lifecycle, adPlayer, gesture, snippet>>

\* AudioPlayer unmounts (the user leaves the screen); the engine goes on
UnmountPlayer ==
    /\ views.player.mounted
    /\ views' = [player |-> [mounted |-> FALSE, position |-> 0],
                 viewer |-> [visible |-> FALSE, currentTime |-> 0]]
    /\ registry' = playerUnsubscribe(IF views.viewer.visible THEN viewerUnsubscribe(registry)
                                       ELSE registry)
    /\ UNCHANGED <<webVars, svc, ui, rest, ad, bookmarkSeek, lifecycle, adPlayer, gesture, snippet>>

\* handleShowTranscription: isVisible becomes true, the viewer's effect
\* registers handleProgressUpdate; its currentTime state is what it was
ShowViewer ==
    /\ views.player.mounted /\ ~views.viewer.visible
    /\ views' = [views EXCEPT !.viewer.visible = TRUE]
    /\ registry' = viewerSubscribe(registry)
    /\ UNCHANGED <<webVars, svc, ui, rest, ad, bookmarkSeek, lifecycle, adPlayer, gesture, snippet>>

\* onClose: isVisible becomes false, the effect's cleanup removes the listener
HideViewer ==
    /\ views.viewer.visible
    /\ views' = [views EXCEPT !.viewer.visible = FALSE]
    /\ registry' = viewerUnsubscribe(registry)
    /\ UNCHANGED <<webVars, svc, ui, rest, ad, bookmarkSeek, lifecycle, adPlayer, gesture, snippet>>

NextViews ==
    \/ MountPlayer
    \/ UnmountPlayer
    \/ ShowViewer
    \/ HideViewer
    \/ \E e \in EpisodeIds : HandleLoadEpisode(e)
    \/ MetadataReady
    \/ HandlePlayPause
    \/ Progress
    \/ \E v \in SeekValues : HandleJump(v)

SpecViews == Init /\ [][NextViews]_vars

\* ------------------------------------------------------ ExitAdvertisement
\* the component renders something only with both props
AdDisplayed == ad.isVisible /\ ad.adConfig

\* the countdown effect's body: reset, then setInterval
startCountdownStale(a) == [a EXCEPT !.canSkip = FALSE, !.timer = TRUE, !.elapsed = 0]

startCountdown(a) ==
    [a EXCEPT !.timeRemaining = InitialTimeRemaining, !.canSkip = FALSE, !.timer = TRUE,
              !.elapsed = 0]

\* the interval's callback: setTimeRemaining(prev => ...)
countdownEarly(a) ==
    IF a.timeRemaining <= 2
    THEN [a EXCEPT !.canSkip = TRUE, !.timer = FALSE, !.timeRemaining = 0]
    ELSE [a EXCEPT !.timeRemaining = @ - 1]

countdown(a) ==
    IF a.timeRemaining <= 1
    THEN [a EXCEPT !.canSkip = TRUE, !.timer = FALSE, !.timeRemaining = 0]
    ELSE [a EXCEPT !.timeRemaining = @ - 1]

\* the parent sets isVisible; with an adConfig the countdown effect runs
ShowAd ==
    /\ ~ad.isVisible /\ ad.shows < MaxShows
    /\ LET shown == [ad EXCEPT !.isVisible = TRUE, !.shows = @ + 1, !.op = "show"]
       IN ad' = IF ad.adConfig THEN startCountdown(shown) ELSE shown
    /\ UNCHANGED <<webVars, svc, ui, views, rest, extraVars>>

\* the parent supplies the adConfig; if isVisible the countdown effect runs
ConfigArrives ==
    /\ ~ad.adConfig
    /\ LET given == [ad EXCEPT !.adConfig = TRUE, !.op = "config"]
       IN ad' = IF ad.isVisible THEN startCountdown(given) ELSE given
    /\ UNCHANGED <<webVars, svc, ui, views, rest, extraVars>>

\* the parent withdraws the adConfig: nothing is rendered, the effect's
\* cleanup clears the interval
ConfigWithdrawn ==
    /\ ad.adConfig
    /\ ad' = [ad EXCEPT !.adConfig = FALSE, !.timer = FALSE, !.op = "noConfig"]
    /\ UNCHANGED <<webVars, svc, ui, views, rest, extraVars>>

\* a second passes with the advertisement on display; the interval, while
\* it is set, runs its callback
AdSecond ==
    /\ AdDisplayed
    /\ LET later == [ad EXCEPT !.elapsed = Min(@ + 1, SkipAfterSeconds + 1), !.op = "second"]
       IN ad' = IF ad.timer THEN countdown(later) ELSE later
    /\ ad' # ad
    /\ UNCHANGED <<webVars, svc, ui, views, rest, extraVars>>

\* the parent hides the advertisement; the effect's cleanup clears the interval
Hidden(a, how) == [a EXCEPT !.isVisible = FALSE, !.timer = FALSE, !.op = how]

\* lines 108-120: the Skip Ad and Continue controls exist once canSkip
ControlsRendered == AdDisplayed /\ ad.canSkip

handleSkipAdCompletes(a) == IF a.canSkip THEN "continue" ELSE "none"

\* handleSkipAd: the callback it invokes, onAdSkip() only when canSkip
handleSkipAd(a) == IF a.canSkip THEN "skip" ELSE "none"

\* Skip Ad pressed: handleSkipAd; on onAdSkip the parent closes the ad
SkipAd ==
    /\ ControlsRendered
    /\ ad' = IF handleSkipAd(ad) = "none" THEN [ad EXCEPT !.op = "ignored"]
             ELSE Hidden(ad, handleSkipAd(ad))
    /\ UNCHANGED <<webVars, svc, ui, views, rest, extraVars>>

\* handleAdComplete: onAdComplete(); the Continue control exists once canSkip
ContinueAd ==
    /\ AdDisplayed /\ ad.canSkip
    /\ ad' = Hidden(ad, "continue")
    /\ UNCHANGED <<webVars, svc, ui, views, rest, extraVars>>

\* the cancel button: onCancel(), at any time
CancelAd ==
    /\ AdDisplayed
    /\ ad' = Hidden(ad, "cancel")
    /\ UNCHANGED <<webVars, svc, ui, views, rest, extraVars>>

NextAd ==
    \/ ShowAd
    \/ ConfigArrives
    \/ ConfigWithdrawn
    \/ AdSecond
    \/ SkipAd
    \/ ContinueAd
    \/ CancelAd

SpecAd == Init /\ [][NextAd]_vars

\* --------------------------------------------------- AppLifecycleSettings
\* useAppLifecycle reads the settings from the durable store; the effect on
\* [settings] copies them into localSettings
SettingsLoaded ==
    /\ lifecycle.settings = NoSettings
    /\ lifecycle' = [lifecycle EXCEPT !.settings = StoredSettings,
                                      !.localSettings = StoredSettings]
    /\ UNCHANGED <<playerVars, adPlayer, gesture, snippet>>

\* a switch is flipped: the toggle moves at once and updateSettings starts
handleSettingChange(key, value) ==
    /\ lifecycle.localSettings # NoSettings
    /\ Len(lifecycle.updates) < MaxUpdates
    /\ lifecycle' = [lifecycle EXCEPT
          !.localSettings = [lifecycle.localSettings EXCEPT ![key] = value],
          !.updates = Append(@, [key |-> key, value |-> value,
                                 settings |-> lifecycle.settings])]
    /\ UNCHANGED <<playerVars, adPlayer, gesture, snippet>>

\* updateSettings resolves: the store and the hook's settings take the
\* value, and the effect on [settings] copies them into localSettings
UpdateResolves ==
    /\ lifecycle.updates # <<>>
    /\ LET u == Head(lifecycle.updates)
           stored == [lifecycle.settings EXCEPT ![u.key] = u.value]
       IN lifecycle' = [lifecycle EXCEPT !.settings = stored,
                                         !.localSettings = stored,
                                         !.updates = Tail(@)]
    /\ UNCHANGED <<playerVars, adPlayer, gesture, snippet>>

\* updateSettings rejects: the catch block reverts the toggles to `settings`,
\* the hook's value in the render in which the switch was flipped
UpdateRejects ==
    /\ lifecycle.updates # <<>>
    /\ LET u == Head(lifecycle.updates)
       IN lifecycle' = [lifecycle EXCEPT
              !.localSettings = IF u.settings # NoSettings THEN u.settings ELSE @,
              !.updates = Tail(@)]
    /\ UNCHANGED <<playerVars, adPlayer, gesture, snippet>>

NextLifecycle ==
    \/ SettingsLoaded
    \/ \E key \in SettingKeys, value \in BOOLEAN : handleSettingChange(key, value)
    \/ UpdateResolves
    \/ UpdateRejects

SpecLifecycle == Init /\ [][NextLifecycle]_vars

\* ---------------------------------------------------------------- AdPlayer
\* the effect on [elapsedTime, adContent, isCompleted, onAdComplete], then
\* the effect on [hasError, isCompleted] of the render it causes: the
\* cleanup clears the interval, and it is started again only while the
\* advertisement is not completed
checkCompletion(p) ==
    LET completed == isAdCompleted(p.adContent, p.elapsedTime) /\ ~p.isCompleted
        q == [p EXCEPT !.canSkip = canSkipAd(p.adContent, p.elapsedTime)]
    IN IF completed
       THEN [q EXCEPT !.isCompleted = TRUE, !.isPlaying = FALSE, !.timer = FALSE,
                      !.onAdComplete = @ + 1]
       ELSE q

\* the parent shows an advertisement: useState defaults, then both effects
MountAdPlayer(adContent) ==
    /\ ~adPlayer.mounted
    /\ adPlayer.shows < MaxShows
    /\ adPlayer' = checkCompletion(
          [mounted |-> TRUE, adContent |-> adContent, elapsedTime |-> 0,
           isPlaying |-> TRUE, canSkip |-> FALSE, isCompleted |-> FALSE,
           timer |-> TRUE, onAdComplete |-> 0, onAdSkip |-> 0,
           shows |-> adPlayer.shows + 1])
    /\ UNCHANGED <<playerVars, lifecycle, gesture, snippet>>

\* the parent removes the player: the effect's cleanup clears the interval
UnmountAdPlayer ==
    /\ adPlayer.mounted
    /\ adPlayer' = [adPlayer EXCEPT !.mounted = FALSE, !.timer = FALSE]
    /\ UNCHANGED <<playerVars, lifecycle, gesture, snippet>>

\* the interval fires: setElapsedTime(prev => prev + 1)
AdPlayerTick ==
    /\ adPlayer.mounted
    /\ adPlayer.timer
    /\ adPlayer.elapsedTime < MaxElapsed
    /\ adPlayer' = checkCompletion([adPlayer EXCEPT !.elapsedTime = @ + 1])
    /\ UNCHANGED <<playerVars, lifecycle, gesture, snippet>>

\* the Skip button is pressed (it is disabled while canSkip is false)
handleSkip ==
    /\ adPlayer.mounted
    /\ adPlayer.canSkip
    /\ adPlayer.onAdSkip < MaxPresses
    /\ adPlayer' = checkCompletion(
          [adPlayer EXCEPT !.isPlaying = FALSE, !.isCompleted = TRUE,
                           !.timer = FALSE, !.onAdSkip = @ + 1])
    /\ UNCHANGED <<playerVars, lifecycle, gesture, snippet>>

NextAdPlayer ==
    \/ \E adContent \in AdContents : MountAdPlayer(adContent)
    \/ UnmountAdPlayer
    \/ AdPlayerTick
    \/ handleSkip

SpecAdPlayer == Init /\ [][NextAdPlayer]_vars

\* ---------------------------------------------------------- GestureHandler
\* (onLongPress and the swipes are left out: no tap moves, and no parent
\* of the taps modelled passes onLongPress)
RenderGestureHandler(props) ==
    /\ gesture.props = NoProps
    /\ gesture' = [gesture EXCEPT !.props = props]
    /\ UNCHANGED <<playerVars, lifecycle, adPlayer, snippet>>

\* the clock moves on once the timeouts that are due have run
ClockTick ==
    /\ gesture.props # NoProps
    /\ gesture.now < MaxClock
    /\ \A i \in DOMAIN gesture.timers : gesture.timers[i] > gesture.now
    /\ gesture' = [gesture EXCEPT !.now = @ + 1]
    /\ UNCHANGED <<playerVars, lifecycle, adPlayer, snippet>>

\* a finger touches the view, later than the touch before
onPanResponderGrant ==
    /\ gesture.props # NoProps
    /\ ~gesture.down
    /\ Len(gesture.grants) < MaxTaps
    /\ gesture.grants # <<>> => gesture.now > gesture.grants[Len(gesture.grants)]
    /\ gesture' =
         IF gesture.now - gesture.lastTap < doubleTapDelay /\ gesture.props.onDoubleTap
         THEN [gesture EXCEPT !.down = TRUE, !.grants = Append(@, gesture.now),
                              !.onDoubleTap = @ + 1, !.lastTap = 0]
         ELSE [gesture EXCEPT !.down = TRUE, !.grants = Append(@, gesture.now),
                              !.lastTap = gesture.now]
    /\ UNCHANGED <<playerVars, lifecycle, adPlayer, snippet>>

\* the finger is lifted where it came down: the single-tap timeout is set
onPanResponderRelease ==
    /\ gesture.down
    /\ gesture' = [gesture EXCEPT !.down = FALSE,
                                  !.timers = Append(@, gesture.now + doubleTapDelay)]
    /\ UNCHANGED <<playerVars, lifecycle, adPlayer, snippet>>

\* the single-tap timeout runs
SingleTapTimeout ==
    /\ gesture.timers # <<>>
    /\ Head(gesture.timers) <= gesture.now
    /\ gesture' =
         IF gesture.now - gesture.lastTap >= doubleTapDelay /\ gesture.props.onPress
         THEN [gesture EXCEPT !.timers = Tail(@), !.onPress = @ + 1]
         ELSE [gesture EXCEPT !.timers = Tail(@)]
    /\ UNCHANGED <<playerVars, lifecycle, adPlayer, snippet>>

NextGesture ==
    \/ \E props \in GestureProps : RenderGestureHandler(props)
    \/ ClockTick
    \/ onPanResponderGrant
    \/ onPanResponderRelease
    \/ SingleTapTimeout

SpecGesture == Init /\ [][NextGesture]_vars

\* ---------------------------------------------------------- SnippetCreator
\* the creator opens on an episode; the effect sets the boundaries
OpenSnippetCreator(episodeDuration, r) ==
    /\ ~snippet.open
    /\ snippet' = [open |-> TRUE, episodeDuration |-> episodeDuration,
                   startTimestamp |-> r.start, endTimestamp |-> r.end, op |-> "open"]
    /\ UNCHANGED <<playerVars, lifecycle, adPlayer, gesture>>

\* onCancel
CloseSnippetCreator ==
    /\ snippet.open
    /\ snippet' = [snippet EXCEPT !.open = FALSE, !.op = "none"]
    /\ UNCHANGED <<playerVars, lifecycle, adPlayer, gesture>>

handleStartChangeOnly(sn, value) ==
    LET newStart == Max(0, Min(value, sn.episodeDuration - 1))
    IN [sn EXCEPT !.startTimestamp = newStart, !.op = "handleStartChange"]
handleStartChange(sn, value) ==
    LET newStart == Max(0, Min(value, sn.episodeDuration - 1))
    IN IF newStart >= sn.endTimestamp
       THEN [sn EXCEPT !.startTimestamp = newStart,
                       !.endTimestamp = Min(sn.episodeDuration, newStart + SnippetLength),
                       !.op = "handleStartChange"]
       ELSE [sn EXCEPT !.startTimestamp = newStart, !.op = "handleStartChange"]

handleEndChange(sn, value) ==
    LET newEnd == Max(sn.startTimestamp + 1, Min(value, sn.episodeDuration))
    IN IF newEnd - sn.startTimestamp > MAX_SNIPPET_DURATION
       THEN [sn EXCEPT !.endTimestamp = newEnd,
                       !.startTimestamp = newEnd - MAX_SNIPPET_DURATION,
                       !.op = "handleEndChange"]
       ELSE [sn EXCEPT !.endTimestamp = newEnd, !.op = "handleEndChange"]

StartChanged(value) ==
    /\ snippet.open
    /\ snippet' = handleStartChange(snippet, value)
    /\ UNCHANGED <<playerVars, lifecycle, adPlayer, gesture>>

EndChanged(value) ==
    /\ snippet.open
    /\ snippet' = handleEndChange(snippet, value)
    /\ UNCHANGED <<playerVars, lifecycle, adPlayer, gesture>>

NextSnippet ==
    \/ \E d \in EpisodeDurations : \E r \in InitialRanges(d) : OpenSnippetCreator(d, r)
    \/ CloseSnippetCreator
    \/ \E value \in TimeValues : StartChanged(value)
    \/ \E value \in TimeValues : EndChanged(value)

SpecSnippet == Init /\ [][NextSnippet]_vars

\* ---------------------------------------------------------------- claims

\* C1: when playEpisode(B) is issued before the play() promise of
\* playEpisode(A) settles, A's late resolution changes nothing: not the
\* current episode, the playing flag, the position, nor anything persisted.
C1_LateResolutionDiscarded ==
    [][(last'.op = "playEpisode.then" /\ last'.arg # currentEpisode)
         => UNCHANGED <<currentEpisode, isPlaying, currentTime, storage, totalPlays>>]_vars

\* C2: a position is only ever stored under the key of the episode the
\* backend is playing: every write to episode_progress_<id> happens while
\* <id> is the episode loaded in the audio element.
C2_CheckpointOfLoadedEpisode ==
    [][storage' # storage => currentEpisode = audio.src]_vars

\* C4: a pause leaves the position it paused at checkpointed for the current
\* episode, or the write that will checkpoint it still on its way.
C4_PauseCheckpoints ==
    pauseDebt.ep # NoEpisode => InQueue(audio.tasks, "timeupdate")

\* C5: with the duration d known, skipForward() moves position p to
\* min(p + 30s, d) and skipBackward() moves it to max(p - 15s, 0).
C5_SkipClamped ==
    [][/\ (last'.op = "skipForward" /\ AudioReady(audio) /\ duration = audio.duration)
            => audio'.currentTime = Min(audio.currentTime + Secs(SkipForwardSeconds), duration)
       /\ (last'.op = "skipBackward" /\ AudioReady(audio) /\ duration = audio.duration)
            => audio'.currentTime = Max(audio.currentTime - Secs(SkipBackwardSeconds), 0)]_vars

C7_PositionWithinDuration ==
    [][/\ (currentEpisode' # NoEpisode /\ duration' > 0)
            => (0 <= currentTime' /\ currentTime' <= duration')
       /\ (currentEpisode # NoEpisode /\ currentEpisode' # currentEpisode)
            => (currentTime' = 0 /\ duration' = 0)]_vars

\* C8: a rate outside the allowed set leaves playbackRate unchanged and is
\* reported as an error; the element only ever gets a rate of the set.
C8_InvalidRateRejected ==
    [][/\ (last'.op = "setPlaybackRate" /\ last'.arg \notin AllowedRates)
            => (playbackRate' = playbackRate /\ last'.notice = "error")
       /\ audio'.playbackRate \in AllowedRates]_vars

\* C9: a play command given while nothing is loaded in the backend, or while
\* the load is still outstanding, changes nothing, asks nothing of the
\* backend and is reported as an error.
C9_PlayOnlyWhenReady ==
    [][(last'.op = "play" /\ ~AudioReady(audio))
         => /\ audio' = audio
            /\ microtasks' = microtasks
            /\ isPlaying' = isPlaying
            /\ last'.notice = "error"]_vars

\* C10: when the backend refuses to start playback the refusal is reported
\* and current episode, playing flag and position stay as they were.
C10_RefusalReported ==
    [][last'.op \in {"playEpisode.refused", "togglePlayPause.refused"}
         => /\ last'.notice = "error"
            /\ UNCHANGED <<currentEpisode, isPlaying, currentTime>>]_vars

\* C11: a load does not stay in the loading state forever: it ends with the
\* metadata resolved, or in the error state with the failure surfaced.
C11_LoadSettles == Loading ~> ~Loading

\* C12: loading an episode that has a saved position leaves the engine at
\* that position (the start position the element takes when the metadata
\* resolves), and the load itself does not start playback.
C12_LoadRestoresWithoutPlaying ==
    [][\A e \in EpisodeIds, allowed \in BOOLEAN :
          (playEpisode(e, allowed) /\ storage[e] # Absent)
             => /\ audio'.currentTime = Min(storage[e], MediaDuration(e))
                /\ audio'.paused]_vars

C14_UnresolvableCleared ==
    rest.lookup \in {"null", "throws"} => (rest.pointer = NoPointer /\ ~rest.isVisible)

\* C15: the prompt is shown at most once, and once the user's answer has been
\* handled it is no longer on display, whatever became of the load and seek.
C15_PromptDiscarded ==
    /\ rest.shown <= 1
    /\ (rest.answered # "none" /\ ~rest.isLoading) => ~PromptDisplayed

\* C16: the saved pointer is removed only by Start Over (or because its
\* episode cannot be found), never by Resume or by a player operation.
C16_PointerKept ==
    [][(rest.pointer # NoPointer /\ rest'.pointer = NoPointer)
          => (rest'.answered = "startOver" \/ rest.pc = "lookup")]_vars

\* C17: during playback at most one checkpoint is written per throttle
\* interval: a write happens only when a whole interval of playback has
\* passed since the last write, or right after a pause, a seek or a load.
C17_WritesThrottled ==
    [][(last'.op = "timeupdate" /\ Writes(currentEpisode, audio.currentTime))
          => sinceWrite >= ThrottleInterval]_vars

\* C18: a component that starts listening to the engine shows the engine's
\* position from that moment on, before any event reaches it: AudioPlayer
\* when it mounts, TranscriptionViewer when it becomes visible.
C18_InitialStateFromEngine ==
    [][/\ (~views.player.mounted /\ views'.player.mounted)
             => views'.player.position = svc'.position
       /\ (~views.viewer.visible /\ views'.viewer.visible)
             => views'.viewer.currentTime = svc'.position]_vars

C22_NoListenerLeak ==
    \A e \in EventNames :
        /\ registry[<<"player", e>>] = (IF views.player.mounted /\ e \in PlayerEvents THEN 1 ELSE 0)
        /\ registry[<<"viewer", e>>] = (IF views.viewer.visible /\ e = "progressUpdated" THEN 1 ELSE 0)

\* AudioPlayer has been unmounted while the engine plays on
C22_Witness ==
    /\ ~views.player.mounted /\ svc.phase = "Playing"
    /\ \A k \in DOMAIN registry : registry[k] = 0

\* C23: the delayed seek of playFromBookmark is applied only to the
\* bookmark's own episode.
C23_BookmarkSeekOwnEpisode ==
    [][last'.op = "bookmarkSeek" => audio.src = last'.arg]_vars

\* C24: isPlaying is true only while the element plays the audio of
\* currentEpisode (an end of stream whose event is still queued apart).
C24_IsPlayingTruthful ==
    isPlaying => /\ audio.src = currentEpisode
                 /\ ~audio.error
                 /\ (~audio.paused \/ InQueue(audio.tasks, "ended"))

\* C25: in the lifecycle settings screen, whenever no update is in flight
\* the toggles shown equal the persisted settings; in particular a failed
\* update puts them back to the latest persisted settings.
C25_TogglesShowPersisted ==
    (lifecycle.updates = <<>> /\ lifecycle.localSettings # NoSettings)
        => lifecycle.localSettings = lifecycle.settings

\* C26: while an advertisement is shown by AdPlayer, onAdComplete and
\* onAdSkip are invoked at most once between them, and once either has
\* been invoked the elapsed-time counter no longer increases.
C26_OneCallbackOnce ==
    [][(adPlayer.mounted /\ adPlayer'.mounted)
         => /\ adPlayer'.onAdComplete + adPlayer'.onAdSkip <= 1
            /\ (adPlayer.onAdComplete + adPlayer.onAdSkip > 0
                  => adPlayer'.elapsedTime <= adPlayer.elapsedTime)]_vars

\* the taps read as the claim reads them: a tap followed by another within
\* doubleTapDelay makes a double tap with it, any other tap is a single tap
RECURSIVE DoubleTaps(_)
DoubleTaps(g) ==
    IF Len(g) < 2 THEN 0
    ELSE IF g[2] - g[1] < doubleTapDelay THEN 1 + DoubleTaps(Tail(Tail(g)))
    ELSE DoubleTaps(Tail(g))
SingleTaps(g) == Len(g) - 2 * DoubleTaps(g)
\* every tap is over and the time to follow it with another has passed
GestureSettled ==
    /\ gesture.grants # <<>>
    /\ ~gesture.down
    /\ gesture.timers = <<>>
    /\ gesture.now >= gesture.grants[Len(gesture.grants)] + doubleTapDelay

\* C27: in GestureHandler every double tap invokes onDoubleTap once and
\* never onPress, and every single tap invokes onPress once and never
\* onDoubleTap: once the taps have settled, each callback the parent passed
\* has been invoked once per tap of its kind.
C27_TapsTellApart ==
    GestureSettled =>
        /\ gesture.props.onPress => gesture.onPress = SingleTaps(gesture.grants)
        /\ gesture.props.onDoubleTap => gesture.onDoubleTap = DoubleTaps(gesture.grants)

C29_RangeNeverTooLong ==
    snippet.open => snippet.endTimestamp - snippet.startTimestamp <= MAX_SNIPPET_DURATION

====
